---- MODULE Spec2Model ----
(***************************************************************************)
(* Warehouse table catalog API (posthog/warehouse/api/table.py).           *)
(*                                                                         *)
(* The persisted state is the DataWarehouseTable rows, the                 *)
(* DataWarehouseCredential rows and the submitted validation jobs.  Every  *)
(* HTTP request runs in one of two clients; a handler is cut into steps at *)
(* the points where it reads or writes the database, so that the steps of  *)
(* two requests interleave as they do with two web workers.                *)
(***************************************************************************)
EXTENDS Integers, Sequences, FiniteSets, TLC

\* ------------------------------------------------------------------ bounds
MaxTables == 4
MaxRequests == 2

\* ------------------------------------------------------------ value spaces
Clients == {"c1", "c2"}
Teams == {"t1", "t2"}
Names == {"n1", "n2"}
Keys == {"a", "b"}
\* the "type" strings a caller may put in an updates payload
TypeValues == {"string", "STRING", "integer", "bogus"}

None == "None"

\* --------------------------------------------------------- python helpers
\* str.upper() on the strings a payload can carry
upper(value) ==
    CASE value = "string" -> "STRING"
      [] value = "STRING" -> "STRING"
      [] value = "integer" -> "INTEGER"
      [] value = "bogus" -> "BOGUS"

\* d[k] = v on a dict modelled as a function
SetItem(d, k, v) == [x \in (DOMAIN d) \cup {k} |-> IF x = k THEN v ELSE d[x]]

\* the empty dict {}
EmptyDict == << >>

\* --------------------------------------------------- type mapping registry
\* DatabaseSerializedFieldType: member name -> member value
DatabaseSerializedFieldType == [STRING |-> "string", INTEGER |-> "integer"]

\* SERIALIZED_FIELD_TO_CLICKHOUSE_MAPPING, keyed by the enum members (their values)
SERIALIZED_FIELD_TO_CLICKHOUSE_MAPPING == [string |-> "String", integer |-> "Int64"]

\* CLICKHOUSE_HOGQL_MAPPING: native type -> query-engine field class name.
\* UUID is a native type only live inference yields: it has no serialized type.
CLICKHOUSE_HOGQL_MAPPING ==
    [String |-> "StringDatabaseField", Int64 |-> "IntegerDatabaseField",
     UUID |-> "StringDatabaseField"]

\* f"Nullable({t})"
Nullable(t) ==
    CASE t = "String" -> "Nullable(String)"
      [] t = "Int64" -> "Nullable(Int64)"
      [] t = "UUID" -> "Nullable(UUID)"

\* the native type under an optional Nullable(...) wrapper
StripNullable(s) ==
    CASE s = "Nullable(String)" -> "String"
      [] s = "Nullable(Int64)" -> "Int64"
      [] s = "Nullable(UUID)" -> "UUID"
      [] OTHER -> s

\* ------------------------------------------------------ column descriptors
\* a column in the "old" style: a bare string holding the native type
OldStyle(s) == [str |-> s]
isinstance_str(d) == DOMAIN d = {"str"}

\* a structured descriptor as the synchronizer writes it
Descriptor(native) ==
    [clickhouse |-> native,
     hogql |-> CLICKHOUSE_HOGQL_MAPPING[StripNullable(native)],
     valid |-> TRUE]

\* DataWarehouseTable.validate_column_type(key): can the table's data be read
\* with the column typed as the instance's columns say.  Column "a" of the
\* source holds text, column "b" holds integers; anything reads as a String.
validate_column_type(columns, key) ==
    LET native == StripNullable(columns[key].clickhouse)
    IN  \/ native = "String"
        \/ (key = "b" /\ native = "Int64")

\* DataWarehouseTable.get_columns(): what inference against the source may
\* return (the source changes over time)
SourceCatalogs ==
    { [a |-> Descriptor("Nullable(String)")],
      [a |-> Descriptor("Nullable(String)"), b |-> Descriptor("Nullable(Int64)")],
      [a |-> Descriptor("UUID"), b |-> Descriptor("Nullable(String)")] }

\* a call of get_columns(): it raises, or it returns a catalog
GetColumnsOutcomes ==
    {[failed |-> TRUE, columns |-> << >>]}
    \cup {[failed |-> FALSE, columns |-> cat] : cat \in SourceCatalogs}

\* ------------------------------------------------------------- the state
VARIABLES
    tables,       \* DataWarehouseTable rows: a sequence, the id is the index
    credentials,  \* DataWarehouseCredential rows: a sequence, the id is the index
    jobs,         \* validate_data_warehouse_table_columns.delay(team, id) calls made
    req,          \* per client: the request it is serving and where it stands
    nreq,         \* requests started so far
    last          \* the request answered last, with its response

vars == <<tables, credentials, jobs, req, nreq, last>>

NoInstance == << >>
NoCredential == 0

\* A client's request: the handler (op) and where it stands (pc), the team and
\* table id of the URL, the body as far as the handler has read it
\* (validated_data of a create; whether "updates" is missing, and the updates
\* once iterated) and the loaded model instance.
Idle == [pc |-> "idle", op |-> "none", team |-> "t1", id |-> 0,
         validated_data |-> << >>, updates_is_None |-> TRUE, updates |-> << >>,
         instance |-> NoInstance]

\* no request answered yet
NoResponse == [seq |-> 0, request |-> Idle, resp |-> ""]

\* the rows a view of team `team` can address: safely_get_queryset
safely_get_queryset(rows, team) ==
    {i \in DOMAIN rows : rows[i].team_id = team /\ ~rows[i].deleted}

\* Model.save() of a loaded instance writes every field of the row
save(rows, id, instance) == [rows EXCEPT ![id] = instance]

\* ------------------------------------------------- TableSerializer.create
\* lines 97-101 without .exclude(deleted=True)
table_name_exists_IncludingDeleted(rows, team_id, name) ==
    \E i \in DOMAIN rows :
        /\ rows[i].team_id = team_id
        /\ rows[i].name = name

\* lines 97-101
table_name_exists(rows, team_id, name) ==
    \E i \in DOMAIN rows :
        /\ ~rows[i].deleted
        /\ rows[i].team_id = team_id
        /\ rows[i].name = name

\* lines 105-122, run after the name check passed.  `inferred` is what
\* table.get_columns() gave: a catalog, or "error" when it raised.
create(rows, creds, submitted, team_id, validated_data, failed, inferred) ==
    LET with_cred == "credential" \in DOMAIN validated_data
        creds1 == IF with_cred
                  THEN Append(creds, [team_id |-> team_id,
                                      access_key |-> validated_data.credential.access_key,
                                      access_secret |-> validated_data.credential.access_secret])
                  ELSE creds
        table == [team_id |-> team_id,
                  name |-> validated_data.name,
                  deleted |-> FALSE,
                  external_data_source |-> None,
                  columns |-> inferred,
                  credential |-> IF with_cred THEN Len(creds1) ELSE NoCredential]
    IN  IF failed
        THEN [resp |-> "ValidationError", tables |-> rows,
              credentials |-> creds1, jobs |-> submitted]
        ELSE [resp |-> "Created", tables |-> Append(rows, table),
              credentials |-> creds1,
              jobs |-> submitted \cup {<<team_id, Len(rows) + 1>>}]

\* ---------------------------------------------------- TableViewSet.destroy
\* DataWarehouseTable.soft_delete()
soft_delete(instance) == [instance EXCEPT !.deleted = TRUE]

\* lines 186-196 without the check of lines 189-192
destroy_NoSourceCheck(instance) ==
    [resp |-> "NoContent", instance |-> soft_delete(instance)]

\* lines 186-196, after get_object()
destroy(instance) ==
    IF instance.external_data_source # None
    THEN [resp |-> "SourcedTableError", instance |-> instance]
    ELSE [resp |-> "NoContent", instance |-> soft_delete(instance)]

\* --------------------------------------------- TableViewSet.perform_update
\* dict.get(k, default) on a partial credential payload
get(d, k, default) == IF k \in DOMAIN d THEN d[k] ELSE default

perform_update(instance, creds, validated_data) ==
    LET has_cred == "credential" \in DOMAIN validated_data
        attrs == (DOMAIN validated_data) \ {"credential"}
        updated == [f \in DOMAIN instance |->
                       IF f \in attrs THEN validated_data[f] ELSE instance[f]]
    IN  IF has_cred /\ instance.credential = NoCredential
        THEN \* instance.credential is None: the attribute assignment raises
             [resp |-> "ServerError", instance |-> instance, credentials |-> creds]
        ELSE IF has_cred
        THEN LET credential == creds[instance.credential]
                 merged == [credential EXCEPT
                     !.access_key = get(validated_data.credential, "access_key", @),
                     !.access_secret = get(validated_data.credential, "access_secret", @)]
             IN  [resp |-> "OK", instance |-> updated,
                  credentials |-> [creds EXCEPT ![instance.credential] = merged]]
        ELSE [resp |-> "OK", instance |-> updated, credentials |-> creds]

\* --------------------------------------------- TableViewSet.update_schema
\* lines 215-219 without the check of lines 220-223
update_schema_begin_NoSourceCheck(updates_is_None, found, instance) ==
    IF updates_is_None THEN "OK"
    ELSE IF ~found THEN "NotFound"
    ELSE ""

\* lines 215-223: "" means the handler goes on to the column checks
update_schema_begin(updates_is_None, found, instance) ==
    IF updates_is_None THEN "OK"
    ELSE IF ~found THEN "NotFound"
    ELSE IF instance.external_data_source # None THEN "SourcedTableError"
    ELSE ""

\* lines 227-231: is some key of the updates missing from the catalog
unknown_key(columns, updates) ==
    \E i \in DOMAIN updates : updates[i][1] \notin DOMAIN columns

\* lines 234-248 with the query-engine type read off the type the column had
\* before line 247 overwrote it
apply_update_StaleHogql(columns, key, value) ==
    LET current_value == columns[key]
        upgraded == IF isinstance_str(current_value)
                    THEN SetItem(columns, key, EmptyDict) ELSE columns
    IN  IF upper(value) \notin DOMAIN DatabaseSerializedFieldType
        THEN [resp |-> "UnknownTypeError", columns |-> columns]
        ELSE IF value \notin DOMAIN SERIALIZED_FIELD_TO_CLICKHOUSE_MAPPING
        THEN [resp |-> "ServerError", columns |-> upgraded]
        ELSE
        LET native == SERIALIZED_FIELD_TO_CLICKHOUSE_MAPPING[value]
            before == IF "clickhouse" \in DOMAIN upgraded[key]
                      THEN StripNullable(upgraded[key].clickhouse) ELSE native
            with_ch == SetItem(upgraded, key,
                               SetItem(upgraded[key], "clickhouse", Nullable(native)))
        IN  [resp |-> "OK",
             columns |-> SetItem(with_ch, key,
                                 SetItem(with_ch[key], "hogql",
                                         CLICKHOUSE_HOGQL_MAPPING[before]))]

\* lines 234-248: one pass of the loop over updates.items()
apply_update(columns, key, value) ==
    LET current_value == columns[key]
        upgraded == IF isinstance_str(current_value)
                    THEN SetItem(columns, key, EmptyDict) ELSE columns
    IN  IF upper(value) \notin DOMAIN DatabaseSerializedFieldType
        THEN [resp |-> "UnknownTypeError", columns |-> columns]
        ELSE IF value \notin DOMAIN SERIALIZED_FIELD_TO_CLICKHOUSE_MAPPING
        THEN \* KeyError at line 247, not caught: HTTP 500
             [resp |-> "ServerError", columns |-> upgraded]
        ELSE
        LET native == SERIALIZED_FIELD_TO_CLICKHOUSE_MAPPING[value]
            with_ch == SetItem(upgraded, key,
                               SetItem(upgraded[key], "clickhouse", Nullable(native)))
        IN  IF native \notin DOMAIN CLICKHOUSE_HOGQL_MAPPING
            THEN \* KeyError at line 248, not caught: HTTP 500
                 [resp |-> "ServerError", columns |-> with_ch]
            ELSE [resp |-> "OK",
                  columns |-> SetItem(with_ch, key,
                                      SetItem(with_ch[key], "hogql",
                                              CLICKHOUSE_HOGQL_MAPPING[native]))]

\* lines 233-248: the loop over updates.items(), from item i on; a return
\* or an exception ends it
RECURSIVE apply_updates(_, _, _)
apply_updates(columns, updates, i) ==
    IF i > Len(updates) THEN [resp |-> "OK", columns |-> columns]
    ELSE LET r == apply_update(columns, updates[i][1], updates[i][2])
         IN  IF r.resp = "OK" THEN apply_updates(r.columns, updates, i + 1) ELSE r

\* lines 225-251 with table.save() moved into the loop: what the passes
\* before a refused item wrote is persisted
update_schema_phase1_SaveInLoop(columns, updates) ==
    IF \E i \in DOMAIN updates : updates[i][1] \notin DOMAIN columns
    THEN [resp |-> "UnknownColumnError", columns |-> columns, saved |-> FALSE]
    ELSE LET r == apply_updates(columns, updates, 1)
         IN  [resp |-> r.resp, columns |-> r.columns,
              saved |-> r.resp = "OK" \/ r.columns # columns]

\* lines 225-251: the response, the in-memory columns, and whether
\* table.save() ran
update_schema_phase1(columns, updates) ==
    IF unknown_key(columns, updates)
    THEN [resp |-> "UnknownColumnError", columns |-> columns, saved |-> FALSE]
    ELSE LET r == apply_updates(columns, updates, 1)
         IN  [resp |-> r.resp, columns |-> r.columns, saved |-> r.resp = "OK"]

\* line 255 for a column that has no valid flag yet; one that has keeps it
set_valid_KeepValid(columns, key) ==
    IF "valid" \in DOMAIN columns[key] THEN columns
    ELSE SetItem(columns, key,
                 SetItem(columns[key], "valid", validate_column_type(columns, key)))

\* line 255: columns[key]["valid"] = table.validate_column_type(key)
set_valid(columns, key) ==
    SetItem(columns, key,
            SetItem(columns[key], "valid", validate_column_type(columns, key)))

\* lines 254-255: the loop over updates.keys(), from item i on
RECURSIVE update_schema_phase2(_, _, _)
update_schema_phase2(columns, updates, i) ==
    IF i > Len(updates) THEN columns
    ELSE update_schema_phase2(set_valid(columns, updates[i][1]), updates, i + 1)

\* --------------------------------------------------------------- payloads
\* an updates dict, in iteration order: pairs <<key, value>> with distinct keys
UpdatesDicts ==
    {<< >>}
    \cup {<<(<<k, v>>)>> : k \in Keys, v \in TypeValues}
    \cup {<<(<<k[1], v1>>), (<<k[2], v2>>)>> :
            k \in {p \in Keys \X Keys : p[1] # p[2]}, v1 \in TypeValues, v2 \in TypeValues}

\* validated_data of a create: a name, with or without credential fields
CreateData ==
    {[name |-> n] : n \in Names}
    \cup {[name |-> n, credential |-> [access_key |-> "k1", access_secret |-> "s1"]] :
            n \in Names}

\* validated_data of a partial update: any of name, deleted, credential
UpdateData ==
    {[name |-> n] : n \in Names}
    \cup {[deleted |-> TRUE]}
    \cup {[credential |-> [access_key |-> "k2"]]}
    \cup {[deleted |-> TRUE, credential |-> [access_secret |-> "s2"]]}

\* ------------------------------------------------------------------- Init
\* Table 1 was written by an ingestion pipeline (it has an external data
\* source); table 2 was linked by hand before descriptors became structured.
InitTables ==
    << [team_id |-> "t1", name |-> "n1", deleted |-> FALSE,
        external_data_source |-> "source1",
        columns |-> [a |-> Descriptor("Nullable(String)"),
                     b |-> Descriptor("Nullable(Int64)")],
        credential |-> NoCredential],
       [team_id |-> "t1", name |-> "n2", deleted |-> FALSE,
        external_data_source |-> None,
        columns |-> [a |-> OldStyle("Nullable(Int64)"),
                     b |-> Descriptor("Nullable(Int64)")],
        credential |-> 1] >>

Init ==
    /\ tables = InitTables
    /\ credentials = << [team_id |-> "t1", access_key |-> "k1", access_secret |-> "s1"] >>
    /\ jobs = {}
    /\ req = [c \in Clients |-> Idle]
    /\ nreq = 0
    /\ last = NoResponse

\* --------------------------------------------------------------- requests
CanStart(c) == req[c].pc = "idle" /\ nreq < MaxRequests

\* the ids a request may name: every row there is, whatever its team and
\* whether deleted or not (get_object() answers 404 for those out of view)
TableIds == DOMAIN tables

Creating == {c \in Clients : req[c].pc = "create"}

\* the response goes out: the client is free again; of the request, what
\* the URL and the body's top level said is remembered
Done(c, r, resp) ==
    /\ req' = [req EXCEPT ![c] = Idle]
    /\ last' = [seq |-> last.seq + 1,
                request |-> [r EXCEPT !.pc = "done", !.instance = NoInstance,
                                      !.updates = << >>],
                resp |-> resp]

\* the handler goes on to its next step
Goto(c, r, pc) ==
    /\ req' = [req EXCEPT ![c] = [r EXCEPT !.pc = pc]]
    /\ UNCHANGED last

\* a request as it arrives
Request(op, team, id) == [Idle EXCEPT !.op = op, !.team = team, !.id = id]

\* POST /tables, lines 95-103
CreateCheck(c) ==
    /\ CanStart(c)
    /\ Len(tables) + Cardinality(Creating) < MaxTables
    /\ \E team \in Teams, validated_data \in CreateData :
          LET r == [Request("create", team, 0) EXCEPT !.validated_data = validated_data]
          IN  IF table_name_exists(tables, team, validated_data.name)
              THEN Done(c, r, "DuplicateNameError")
              ELSE Goto(c, r, "create")
    /\ nreq' = nreq + 1
    /\ UNCHANGED <<tables, credentials, jobs>>

\* POST /tables, lines 105-122
CreateCommit(c) ==
    /\ req[c].pc = "create"
    /\ \E outcome \in GetColumnsOutcomes :
          LET failed == outcome.failed
              r == create(tables, credentials, jobs, req[c].team,
                          req[c].validated_data, failed, outcome.columns)
          IN  /\ tables' = r.tables
              /\ credentials' = r.credentials
              /\ jobs' = r.jobs
              /\ Done(c, [req[c] EXCEPT !.id = IF failed THEN 0 ELSE Len(r.tables)],
                      r.resp)
    /\ UNCHANGED nreq

\* DELETE /tables/{id}
Destroy(c) ==
    /\ CanStart(c)
    /\ \E team \in Teams, id \in TableIds :
          IF id \notin safely_get_queryset(tables, team)
          THEN /\ Done(c, Request("destroy", team, id), "NotFound")
               /\ UNCHANGED tables
          ELSE LET r == destroy(tables[id])
               IN  /\ tables' = [tables EXCEPT ![id] = r.instance]
                   /\ Done(c, Request("destroy", team, id), r.resp)
    /\ nreq' = nreq + 1
    /\ UNCHANGED <<credentials, jobs>>

\* PATCH /tables/{id}: serializer.instance is the row get_object() returned
Update(c) ==
    /\ CanStart(c)
    /\ \E team \in Teams, id \in TableIds, validated_data \in UpdateData :
          IF id \notin safely_get_queryset(tables, team)
          THEN /\ Done(c, Request("update", team, id), "NotFound")
               /\ UNCHANGED <<tables, credentials>>
          ELSE LET r == perform_update(tables[id], credentials, validated_data)
               IN  /\ tables' = save(tables, id, r.instance)
                   /\ credentials' = r.credentials
                   /\ Done(c, Request("update", team, id), r.resp)
    /\ nreq' = nreq + 1
    /\ UNCHANGED jobs

\* POST /tables/{id}/update_schema, lines 215-223.  These lines only look at
\* whether the body has an "updates" entry; what the entry holds is drawn by
\* the step that first iterates it (UpdateSchemaPhase1).
UpdateSchemaBegin(c) ==
    /\ CanStart(c)
    /\ \E team \in Teams, id \in TableIds, updates_is_None \in BOOLEAN :
          LET found == id \in safely_get_queryset(tables, team)
              instance == IF found THEN tables[id] ELSE NoInstance
              resp == update_schema_begin(updates_is_None, found, instance)
              r == [Request("update_schema", team, id) EXCEPT
                        !.updates_is_None = updates_is_None, !.instance = instance]
          IN  IF resp # ""
              THEN Done(c, r, resp)
              ELSE Goto(c, r, "phase1")
    /\ nreq' = nreq + 1
    /\ UNCHANGED <<tables, credentials, jobs>>

\* POST /tables/{id}/update_schema, lines 225-251
UpdateSchemaPhase1(c) ==
    /\ req[c].pc = "phase1"
    /\ \E updates \in UpdatesDicts :
          LET r == update_schema_phase1(req[c].instance.columns, updates)
              table == [req[c].instance EXCEPT !.columns = r.columns]
              next == [req[c] EXCEPT !.updates = updates, !.instance = table]
          IN  /\ tables' = IF r.saved THEN save(tables, req[c].id, table) ELSE tables
              /\ IF r.resp = "OK"
                 THEN Goto(c, next, "phase2")
                 ELSE Done(c, next, r.resp)
    /\ UNCHANGED <<credentials, jobs, nreq>>

\* POST /tables/{id}/update_schema, lines 253-260
UpdateSchemaPhase2(c) ==
    /\ req[c].pc = "phase2"
    /\ LET columns == update_schema_phase2(req[c].instance.columns, req[c].updates, 1)
           table == [req[c].instance EXCEPT !.columns = columns]
       IN  /\ tables' = save(tables, req[c].id, table)
           /\ Done(c, req[c], "OK")
    /\ UNCHANGED <<credentials, jobs, nreq>>

\* POST /tables/{id}/refresh_schema, line 264
RefreshSchemaBegin(c) ==
    /\ CanStart(c)
    /\ \E team \in Teams, id \in TableIds :
          IF id \notin safely_get_queryset(tables, team)
          THEN Done(c, Request("refresh_schema", team, id), "NotFound")
          ELSE Goto(c, [Request("refresh_schema", team, id) EXCEPT
                            !.instance = tables[id]], "refresh")
    /\ nreq' = nreq + 1
    /\ UNCHANGED <<tables, credentials, jobs>>

\* POST /tables/{id}/refresh_schema, lines 266-269
RefreshSchemaSave(c) ==
    /\ req[c].pc = "refresh"
    /\ \E outcome \in GetColumnsOutcomes :
          IF outcome.failed
          THEN \* get_columns() raised; nothing catches it
               /\ Done(c, req[c], "ServerError")
               /\ UNCHANGED tables
          ELSE /\ tables' = save(tables, req[c].id,
                                 [req[c].instance EXCEPT !.columns = outcome.columns])
               /\ Done(c, req[c], "OK")
    /\ UNCHANGED <<credentials, jobs, nreq>>

Next ==
    \E c \in Clients :
        \/ CreateCheck(c)
        \/ CreateCommit(c)
        \/ Destroy(c)
        \/ Update(c)
        \/ UpdateSchemaBegin(c)
        \/ UpdateSchemaPhase1(c)
        \/ UpdateSchemaPhase2(c)
        \/ RefreshSchemaBegin(c)
        \/ RefreshSchemaSave(c)

Spec == Init /\ [][Next]_vars

\* ================================================================ claims
\* the step is client c's request being answered: a response goes out, and
\* either c was serving a request and is free again, or a request arrived and
\* was answered in the same step (which idle client sent it makes no
\* difference to any handler)
Answered(c) ==
    /\ last'.seq = last.seq + 1
    /\ req'[c].pc = "idle"
    /\ (req[c].pc # "idle" \/ nreq' = nreq + 1)

\* the step is client c's request arriving (and maybe answered at once)
Arrives(c) == req[c].pc = "idle" /\ (req'[c].pc # "idle" \/ Answered(c))

\* the request that arrives in an Arrives(c) step
Arriving(c) == IF req'[c].pc # "idle" THEN req'[c] ELSE last'.request

\* the request names a row its team's view can address
InView(r) ==
    /\ r.id \in DOMAIN tables
    /\ tables[r.id].team_id = r.team
    /\ ~tables[r.id].deleted

Sourced(id) == tables[id].external_data_source # None

\* ---- C1
\* C1 as stated: update_schema on a table linked to an external data source
\* answers SourcedTableError whatever the body holds, "updates" absent
\* included, and leaves every persisted catalog as it was.
C1_AlwaysSourcedTableError ==
    [][\A c \in Clients :
          (/\ Arrives(c)
           /\ Arriving(c).op = "update_schema"
           /\ InView(Arriving(c))
           /\ Sourced(Arriving(c).id))
          => (/\ Answered(c)
              /\ last'.resp = "SourcedTableError"
              /\ tables' = tables)]_vars

\* C1 amended: update_schema on a table linked to an external data source
\* is answered at once and leaves the persisted tables as they were; the
\* answer is SourcedTableError when the body has an "updates" entry (an empty
\* one included) and 200 OK when it has none.
C1_SourcedNeverMutated ==
    [][\A c \in Clients :
          (/\ Arrives(c)
           /\ Arriving(c).op = "update_schema"
           /\ InView(Arriving(c))
           /\ Sourced(Arriving(c).id))
          => (/\ Answered(c)
              /\ last'.resp = IF last'.request.updates_is_None
                              THEN "OK" ELSE "SourcedTableError"
              /\ tables' = tables)]_vars

\* an update_schema with an "updates" entry was refused on a sourced table
C1_Witness ==
    /\ last.request.op = "update_schema"
    /\ ~last.request.updates_is_None
    /\ last.resp = "SourcedTableError"
    /\ Sourced(last.request.id)

\* ---- C2
\* some key of the updates is not in the catalog, or some value names no
\* member of the serialized type enum
Offending(columns, updates) ==
    \E i \in DOMAIN updates :
        \/ updates[i][1] \notin DOMAIN columns
        \/ upper(updates[i][2]) \notin DOMAIN DatabaseSerializedFieldType

\* C2: update_schema is all-or-nothing.  Whatever updates a request in its
\* column checks may carry, if some key is unknown or some type is not
\* accepted, wherever in the updates it stands, the call ends in an error
\* without table.save(); and a call answered UnknownColumnError or
\* UnknownTypeError has left every persisted table as it was.
C2_AllOrNothing ==
    /\ [](\A c \in Clients :
            req[c].pc = "phase1" =>
                \A u \in UpdatesDicts :
                    Offending(req[c].instance.columns, u) =>
                        LET r == update_schema_phase1(req[c].instance.columns, u)
                        IN  r.resp # "OK" /\ ~r.saved)
    /\ [][\A c \in Clients :
            (req[c].pc = "phase1" /\ Answered(c))
            => (/\ last'.resp \in {"UnknownColumnError", "UnknownTypeError", "ServerError"}
                /\ tables' = tables)]_vars

\* an update_schema was refused for a type that does not exist, on a table
\* whose catalog is still the one it had (old-style column included)
C2_Witness ==
    /\ last.request.op = "update_schema"
    /\ last.resp = "UnknownTypeError"
    /\ last.request.id = 2
    /\ tables[2].columns = InitTables[2].columns

\* ---- C3
\* C3: every update_schema on a hand-linked table whose keys all exist is
\* answered 200 (types resolved and applied) or UnknownTypeError; none ends
\* in an unhandled lookup error.
C3_TypeResolvesOrUnknownTypeError ==
    last.request.op = "update_schema" =>
        last.resp \in {"OK", "NotFound", "SourcedTableError",
                       "UnknownColumnError", "UnknownTypeError"}

\* ---- C4
\* a non-deleted table of that name exists in the team
NameTaken(team, name) ==
    \E i \in DOMAIN tables :
        ~tables[i].deleted /\ tables[i].team_id = team /\ tables[i].name = name

\* C4: a create whose name a non-deleted table of the team bears is answered
\* DuplicateNameError and persists nothing; a create whose name no
\* non-deleted table of the team bears (a soft-deleted one may) passes the
\* name check, and once the synchronizer has returned a catalog it is
\* answered Created with the new, non-deleted row appended.
C4_DuplicateNameThenReuse ==
    [][\A c \in Clients :
          /\ (Arrives(c) /\ Arriving(c).op = "create")
             => IF NameTaken(Arriving(c).team, Arriving(c).validated_data.name)
                THEN /\ Answered(c)
                     /\ last'.resp = "DuplicateNameError"
                     /\ tables' = tables
                     /\ credentials' = credentials
                ELSE req'[c].pc = "create"
          /\ (req[c].pc = "create" /\ Answered(c))
             => \/ last'.resp = "ValidationError" /\ tables' = tables
                \/ /\ last'.resp = "Created"
                   /\ Len(tables') = Len(tables) + 1
                   /\ \A i \in DOMAIN tables : tables'[i] = tables[i]
                   /\ tables'[Len(tables')].name = req[c].validated_data.name
                   /\ tables'[Len(tables')].team_id = req[c].team
                   /\ ~tables'[Len(tables')].deleted]_vars

\* a table was soft-deleted and a create then reused its name in its team
C4_Witness ==
    /\ last.request.op = "create"
    /\ last.resp = "Created"
    /\ \E i \in DOMAIN tables :
          /\ i < last.request.id
          /\ tables[i].deleted
          /\ tables[i].team_id = tables[last.request.id].team_id
          /\ tables[i].name = tables[last.request.id].name
          /\ ~tables[last.request.id].deleted

\* ---- C5
\* C5: no two non-deleted tables of one team bear the same name.
C5_UniqueNames ==
    \A i \in DOMAIN tables, j \in DOMAIN tables :
        (/\ i # j
         /\ ~tables[i].deleted
         /\ ~tables[j].deleted
         /\ tables[i].team_id = tables[j].team_id)
        => tables[i].name # tables[j].name

\* ---- C6
\* C6: a create answered ValidationError (the synchronizer failed) has
\* persisted nothing: no table, no credential, no validation job.
C6_FailedCreatePersistsNothing ==
    [][\A c \in Clients :
          (req[c].pc = "create" /\ Answered(c) /\ last'.resp = "ValidationError")
          => (/\ tables' = tables
              /\ credentials' = credentials
              /\ jobs' = jobs)]_vars

\* ---- C7
\* C7: a destroy of a sourced table is answered SourcedTableError and
\* changes nothing; a destroy of a table without external data source sets
\* that row's deleted flag and changes nothing else.
C7_SoftDelete ==
    [][\A c \in Clients :
          (/\ Arrives(c)
           /\ Arriving(c).op = "destroy"
           /\ InView(Arriving(c)))
          => /\ Answered(c)
             /\ credentials' = credentials
             /\ jobs' = jobs
             /\ IF Sourced(last'.request.id)
                THEN last'.resp = "SourcedTableError" /\ tables' = tables
                ELSE /\ last'.resp = "NoContent"
                     /\ tables' = [tables EXCEPT ![last'.request.id].deleted = TRUE]]_vars

\* a destroy was refused on a sourced table, which is still there, after a
\* hand-linked table had been deleted
C7_Witness ==
    /\ last.request.op = "destroy"
    /\ last.resp = "SourcedTableError"
    /\ ~tables[last.request.id].deleted
    /\ tables[2].deleted
    /\ tables[2].columns = InitTables[2].columns

\* ---- C8
\* C8: on every persisted catalog of a hand-linked table, for every column k
\* of it (old style or structured) and every type t the registry maps,
\* update_schema with {k: t} succeeds, and run again on its own result
\* leaves the catalog it left the first time.
C8_Idempotent ==
    \A i \in DOMAIN tables :
        ~Sourced(i) =>
            \A k \in DOMAIN tables[i].columns,
               t \in DOMAIN SERIALIZED_FIELD_TO_CLICKHOUSE_MAPPING :
                LET u == <<(<<k, t>>)>>
                    first == update_schema_phase1(tables[i].columns, u)
                    once == update_schema_phase2(first.columns, u, 1)
                    second == update_schema_phase1(once, u)
                    twice == update_schema_phase2(second.columns, u, 1)
                IN  /\ first.saved
                    /\ second.saved
                    /\ twice = once

\* a second update_schema {a: integer} is about to persist, over the
\* descriptor a first one left (only update_schema marks an Int64 column
\* invalid), exactly the catalog that is persisted
C8_Witness ==
    \E c \in Clients :
        /\ req[c].pc = "phase2"
        /\ req[c].updates = <<(<<"a", "integer">>)>>
        /\ last.request.op = "update_schema"
        /\ last.request.id = req[c].id
        /\ last.resp = "OK"
        /\ tables[req[c].id].columns.a =
              [clickhouse |-> "Nullable(Int64)", hogql |-> "IntegerDatabaseField",
               valid |-> FALSE]
        /\ update_schema_phase2(req[c].instance.columns, req[c].updates, 1)
              = tables[req[c].id].columns

\* ---- C9
\* the type a request's updates ask for column k
Requested(updates, k) ==
    LET i == CHOOSE j \in DOMAIN updates : updates[j][1] = k IN updates[i][2]

Named(updates, k) == \E j \in DOMAIN updates : updates[j][1] = k

C10_HogqlMatchesClickhouse ==
    \A i \in DOMAIN tables :
        \A k \in DOMAIN tables[i].columns :
            LET d == tables[i].columns[k]
            IN  "hogql" \in DOMAIN d =>
                    /\ "clickhouse" \in DOMAIN d
                    /\ StripNullable(d.clickhouse) \in DOMAIN CLICKHOUSE_HOGQL_MAPPING
                    /\ d.hogql = CLICKHOUSE_HOGQL_MAPPING[StripNullable(d.clickhouse)]

\* between the two saves of an update_schema, a refresh_schema of the other
\* client has overwritten the catalog the first save persisted
C10_Witness ==
    \E c \in Clients :
        /\ req[c].pc = "phase2"
        /\ req[c].updates # << >>
        /\ last.request.op = "refresh_schema"
        /\ last.resp = "OK"
        /\ nreq = 2
        /\ last.request.id = req[c].id
        /\ tables[req[c].id].columns # req[c].instance.columns

====
